---- MODULE Spec2Model ----
(***************************************************************************)
(* Commitment-based age verification (zk-is-cool).                         *)
(*                                                                         *)
(*   src/src/lib/zk-age.ts   generateAgeProof, verifyAgeProof,             *)
(*                           createPublicProof                             *)
(*   src/unnamed/part_000    AgeProofGenerator (handleGenerateProof)       *)
(*   src/unnamed/part_001    Home (handleProofGenerated, handleReset) and  *)
(*                           the /api/verify-proof POST handler            *)
(*                                                                         *)
(* LibSpec applies the three library functions to bounded inputs.          *)
(* Spec is the page, the network and the POST handler.                     *)
(***************************************************************************)
EXTENDS Integers, Sequences, FiniteSets, TLC

VARIABLES
    call,               \* LibSpec: the last library call, its arguments and result
    tz,                 \* sign of the browser's UTC offset (-1 west, 0, 1 east)
    today,              \* new Date() in the browser
    time,               \* Date.now() in the browser, in ms
    skew,               \* server clock minus browser clock, in ms
    ticks,              \* how many times the clock has advanced
    birthDate,          \* AgeProofGenerator: useState('')
    isGenerating,       \* AgeProofGenerator: useState(false)
    genError,           \* AgeProofGenerator: useState('')
    state,              \* Home: 'generator' | 'submitting' | 'verified'
    publicProof,        \* Home: useState(null)
    verificationResult, \* Home: useState(null)
    error,              \* Home: useState('')
    request,            \* the fetch in flight to /api/verify-proof, or NoMessage
    response,           \* the response in flight back to the page, or NoMessage
    attempt,            \* history: the last run of handleGenerateProof
    served,             \* history: what the POST handler has answered to its callers
    mounted,            \* SequenceDiagram: the component is on the page
    animatedSteps,      \* SequenceDiagram: useState([])
    shouldAnimate,      \* SequenceDiagram: useState(true)
    effectDue,          \* SequenceDiagram: the animation effect is scheduled to run
    timer,              \* SequenceDiagram: the interval, "set" or "none"
    currentIndex,       \* SequenceDiagram: the effect's let currentIndex
    clicks,             \* history: presses of the replay button
    mounts              \* history: how often the diagram was mounted

libVars == <<call>>
diagramVars == <<mounted, animatedSteps, shouldAnimate, effectDue, timer, currentIndex,
                 clicks, mounts>>
pageVars == <<tz, today, time, skew, ticks, birthDate, isGenerating, genError,
              state, publicProof, verificationResult, error, request, response,
              attempt, served, diagramVars>>
vars == <<call, tz, today, time, skew, ticks, birthDate, isGenerating, genError,
          state, publicProof, verificationResult, error, request, response,
          attempt, served, diagramVars>>

(***************************************************************************)
(* Bounds of the model.                                                    *)
(***************************************************************************)
ThisYear == 2024        \* the year of "today"
YearSlack == 1          \* birth years range over ThisYear - 18 +/- YearSlack
MaxMonth == 2           \* months 1..MaxMonth
MaxDay == 2             \* days 1..MaxDay
StartTime == 7200005    \* Date.now() of the first call, ms after the model's origin
MaxSubmissions == 2     \* how often the same request body is submitted
MaxClicks == 4          \* presses of the replay button
MaxMounts == 2          \* times the diagram is mounted
MaxTicks == 1           \* clock advances while a message is in flight

(***************************************************************************)
(* JavaScript values: undefined, null, NaN, numbers, strings, booleans.    *)
(***************************************************************************)
Undefined == [ty |-> "undefined", n |-> 0, s |-> "", b |-> FALSE]
Null == [ty |-> "null", n |-> 0, s |-> "", b |-> FALSE]
NaN == [ty |-> "nan", n |-> 0, s |-> "", b |-> FALSE]
Num(n) == [ty |-> "number", n |-> n, s |-> "", b |-> FALSE]
Str(s) == [ty |-> "string", n |-> 0, s |-> s, b |-> FALSE]
Bool(b) == [ty |-> "boolean", n |-> 0, s |-> "", b |-> b]

\* typeof v
TypeOf(v) ==
    CASE v.ty = "nan" -> "number"
      [] v.ty = "null" -> "object"
      [] OTHER -> v.ty

\* ToBoolean(v), as in `!v` and `v ? a : b`
Truthy(v) ==
    CASE v.ty = "number" -> v.n # 0
      [] v.ty = "string" -> v.s # ""
      [] v.ty = "boolean" -> v.b
      [] OTHER -> FALSE

\* ToNumber(v), as applied by the binary minus; every string of the model other
\* than the empty one is non-numeric
ToNumber(v) ==
    CASE v.ty = "number" -> v
      [] v.ty = "null" -> Num(0)
      [] v.ty = "boolean" -> Num(IF v.b THEN 1 ELSE 0)
      [] v.ty = "string" -> IF v.s = "" THEN Num(0) ELSE NaN
      [] OTHER -> NaN

\* a - b
Minus(a, b) ==
    LET x == ToNumber(a)
        y == ToNumber(b)
    IN IF x.ty = "number" /\ y.ty = "number" THEN Num(x.n - y.n) ELSE NaN

\* a > b on numbers; any comparison with NaN is false
GreaterThan(a, b) ==
    LET x == ToNumber(a)
        y == ToNumber(b)
    IN x.ty = "number" /\ y.ty = "number" /\ x.n > y.n

\* ToString(v), as applied by string concatenation
ToStr(v) ==
    CASE v.ty = "string" -> v.s
      [] v.ty = "number" -> ToString(v.n)
      [] v.ty = "boolean" -> IF v.b THEN "true" ELSE "false"
      [] v.ty = "nan" -> "NaN"
      [] v.ty = "null" -> "null"
      [] OTHER -> "undefined"

\* obj.k: a missing property reads as undefined
Get(obj, k) == IF k \in DOMAIN obj THEN obj[k] ELSE Undefined

(***************************************************************************)
(* Calendar dates <<year, month, day>> and JavaScript Date objects.  A     *)
(* Date is an instant: utc is its calendar date in UTC (what toISOString   *)
(* prints), loc its calendar date in the local time zone (what getFullYear,*)
(* getMonth and getDate read).                                             *)
(***************************************************************************)
IsLeap(y) == (y % 4 = 0 /\ y % 100 # 0) \/ y % 400 = 0

DaysInMonth(y, m) ==
    IF m = 2 THEN (IF IsLeap(y) THEN 29 ELSE 28)
    ELSE IF m \in {4, 6, 9, 11} THEN 30 ELSE 31

PrevDay(d) ==
    IF d[3] > 1 THEN <<d[1], d[2], d[3] - 1>>
    ELSE IF d[2] > 1 THEN <<d[1], d[2] - 1, DaysInMonth(d[1], d[2] - 1)>>
    ELSE <<d[1] - 1, 12, 31>>

NextDay(d) ==
    IF d[3] < DaysInMonth(d[1], d[2]) THEN <<d[1], d[2], d[3] + 1>>
    ELSE IF d[2] < 12 THEN <<d[1], d[2] + 1, 1>>
    ELSE <<d[1] + 1, 1, 1>>

\* a is a calendar date strictly before b
DateBefore(a, b) ==
    \/ a[1] < b[1]
    \/ a[1] = b[1] /\ a[2] < b[2]
    \/ a[1] = b[1] /\ a[2] = b[2] /\ a[3] < b[3]

MkDate(utc, loc) == [kind |-> "date", utc |-> utc, loc |-> loc]
InvalidDate == [kind |-> "invalid", utc |-> <<0, 0, 0>>, loc |-> <<0, 0, 0>>]
NoDate == [kind |-> "undefined", utc |-> <<0, 0, 0>>, loc |-> <<0, 0, 0>>]

getFullYear(date) == date.loc[1]
getMonth(date) == date.loc[2] - 1
getDate(date) == date.loc[3]

Pad2(n) == IF n < 10 THEN "0" \o ToString(n) ELSE ToString(n)

\* date.toISOString().split('T')[0]
ToISODateString(date) ==
    ToString(date.utc[1]) \o "-" \o Pad2(date.utc[2]) \o "-" \o Pad2(date.utc[3])

\* crypto.createHash('sha256').update(s).digest('hex'): one-way and collision-free
Hash(s) == "sha256(" \o s \o ")"

(***************************************************************************)
(* src/src/lib/zk-age.ts                                                   *)
(***************************************************************************)
AdultAge == 18
ONE_HOUR == 60 * 60 * 1000

\* a variant of GenIsOver18 that is not yet true on the 18th birthday itself
GenIsOver18Strict(bd, now) ==
    LET age == getFullYear(now) - getFullYear(bd)
        monthDiff == getMonth(now) - getMonth(bd)
    IN age > AdultAge
       \/ (age = AdultAge /\ monthDiff >= 0 /\ getDate(now) > getDate(bd))

\* generateAgeProof: the age test of the prover
GenIsOver18(bd, now) ==
    LET age == getFullYear(now) - getFullYear(bd)
        monthDiff == getMonth(now) - getMonth(bd)
    IN age > AdultAge
       \/ (age = AdultAge /\ monthDiff >= 0 /\ getDate(now) >= getDate(bd))

\* a variant of GenCommitment that leaves the salt out of the hash
GenCommitmentUnsalted(bd, salt) == Hash(ToISODateString(bd))

\* generateAgeProof: the string that is hashed, birthDateString + salt
GenCommitment(bd, salt) == Hash(ToISODateString(bd) \o salt)

\* a variant of generateAgeProofThrows that also refuses a birth date of this year
generateAgeProofThrowsThisYear(bd) == bd.kind # "date" \/ bd.utc[1] >= ThisYear

\* generateAgeProof(birthDate), with crypto.randomBytes, new Date() and Date.now()
\* passed in as salt, now and nowMs; toISOString throws on an invalid Date
generateAgeProofThrows(bd) == bd.kind # "date"

generateAgeProof(bd, now, nowMs, salt) ==
    [commitment |-> Str(GenCommitment(bd, salt)),
     ageProof |-> Bool(GenIsOver18(bd, now)),
     timestamp |-> Num(nowMs),
     salt |-> Str(salt)]

\* verifyAgeProof: the structural check
StructureInvalid(proof) ==
    ~Truthy(Get(proof, "commitment")) \/ TypeOf(Get(proof, "ageProof")) # "boolean"

\* a variant of IsExpired that also rejects a proof exactly one hour old
IsExpiredAtBoundary(proofAge) ==
    LET x == ToNumber(proofAge) IN x.ty = "number" /\ x.n >= ONE_HOUR

\* verifyAgeProof: proofAge > ONE_HOUR
IsExpired(proofAge) == GreaterThan(proofAge, Num(ONE_HOUR))

\* verifyAgeProof: the age test of the verifier
VerIsOver18(bd, now) ==
    LET age == getFullYear(now) - getFullYear(bd)
        monthDiff == getMonth(now) - getMonth(bd)
        dayDiff == getDate(now) - getDate(bd)
    IN age > AdultAge
       \/ (age = AdultAge /\ monthDiff > 0)
       \/ (age = AdultAge /\ monthDiff = 0 /\ dayDiff >= 0)

\* a variant of VerDateString built from the local-time getters
VerDateStringLocal(bd) ==
    ToString(getFullYear(bd)) \o "-" \o Pad2(getMonth(bd) + 1) \o "-" \o Pad2(getDate(bd))

\* verifyAgeProof: the date string of the recomputation
VerDateString(bd) == ToISODateString(bd)

NoDetails ==
    [commitment |-> Undefined, expectedCommitment |-> "", ageValid |-> FALSE,
     timestamp |-> Undefined]

Result(isValid, message) ==
    [threw |-> FALSE, isValid |-> isValid, message |-> message,
     hasDetails |-> FALSE, proofDetails |-> NoDetails]

\* toISOString on an invalid Date: RangeError, no result
Thrown ==
    [threw |-> TRUE, isValid |-> FALSE, message |-> "RangeError: Invalid time value",
     hasDetails |-> FALSE, proofDetails |-> NoDetails]

\* a variant of RecomputeValid without the test proof.ageProof === true
RecomputeValidAnyClaim(commitmentMatches, ageValid, proof) ==
    commitmentMatches /\ ageValid

\* verifyAgeProof: the branch taken when a birth date is given
RecomputeValid(commitmentMatches, ageValid, proof) ==
    commitmentMatches /\ ageValid /\ Get(proof, "ageProof") = Bool(TRUE)

RecomputeResult(proof, bd, now) ==
    LET expectedCommitment == Hash(VerDateString(bd) \o ToStr(Get(proof, "salt")))
        commitmentMatches == Get(proof, "commitment") = Str(expectedCommitment)
        isOver18 == VerIsOver18(bd, now)
        ageValid == Get(proof, "ageProof") = Bool(isOver18)
    IN [threw |-> FALSE,
        isValid |-> RecomputeValid(commitmentMatches, ageValid, proof),
        message |-> IF commitmentMatches /\ ageValid /\ Truthy(Get(proof, "ageProof"))
                    THEN "Proof verified: User is over 18"
                    ELSE "Proof verification failed",
        hasDetails |-> TRUE,
        proofDetails |-> [commitment |-> Get(proof, "commitment"),
                          expectedCommitment |-> expectedCommitment,
                          ageValid |-> ageValid,
                          timestamp |-> Get(proof, "timestamp")]]

\* a variant of ClaimOnlyResult that accepts whatever the flag says
ClaimOnlyAcceptAll(proof) ==
    [threw |-> FALSE, isValid |-> TRUE,
     message |-> "Proof accepted: User claims to be over 18",
     hasDetails |-> FALSE, proofDetails |-> NoDetails]

\* verifyAgeProof: the branch taken without a birth date
ClaimOnlyResult(proof) ==
    Result(Get(proof, "ageProof") = Bool(TRUE),
           IF Truthy(Get(proof, "ageProof"))
           THEN "Proof accepted: User claims to be over 18"
           ELSE "Proof rejected: User is not over 18")

\* verifyAgeProof(proof, birthDate?), with new Date() and Date.now() passed in
verifyAgeProof(proof, bd, now, nowMs) ==
    IF StructureInvalid(proof) THEN Result(FALSE, "Invalid proof structure")
    ELSE IF IsExpired(Minus(Num(nowMs), Get(proof, "timestamp")))
    THEN Result(FALSE, "Proof has expired")
    ELSE IF bd.kind = "undefined" THEN ClaimOnlyResult(proof)
    ELSE IF bd.kind = "invalid" THEN Thrown
    ELSE RecomputeResult(proof, bd, now)

\* a variant of createPublicProof that copies every property of the proof
createPublicProofSpread(proof) ==
    [k \in DOMAIN proof \cup {"commitment", "ageProof", "timestamp"} |-> Get(proof, k)]

\* createPublicProof(proof)
createPublicProof(proof) ==
    [commitment |-> Get(proof, "commitment"),
     ageProof |-> Get(proof, "ageProof"),
     timestamp |-> Get(proof, "timestamp")]

(***************************************************************************)
(* Inputs of the library calls.                                            *)
(***************************************************************************)
BirthYears ==
    ((ThisYear - AdultAge - YearSlack)..(ThisYear - AdultAge + YearSlack)) \cup {ThisYear}

CalendarDates(years) ==
    {<<y, m, d>> : y \in years, m \in 1..MaxMonth, d \in 1..MaxDay}

\* every instant of a calendar day, seen from every time zone
DateObjects(cal) ==
    {MkDate(u, u) : u \in cal} \cup
    {MkDate(u, PrevDay(u)) : u \in cal} \cup
    {MkDate(u, NextDay(u)) : u \in cal}

BirthDates == DateObjects(CalendarDates(BirthYears))
Todays == DateObjects(CalendarDates({ThisYear}))

\* hex strings of crypto.randomBytes(32)
Salts == {"a1", "b2"}

SampleBirthDate == MkDate(<<ThisYear - AdultAge - 1, 1, 1>>, <<ThisYear - AdultAge - 1, 1, 1>>)
SampleToday == MkDate(<<ThisYear, 1, 1>>, <<ThisYear, 1, 1>>)

\* an object literal; a property whose value is undefined is left out
Obj(c, a, t, s) ==
    LET full == [commitment |-> c, ageProof |-> a, timestamp |-> t, salt |-> s]
        keys == {k \in DOMAIN full : full[k] # Undefined}
    IN [k \in keys |-> full[k]]

SaltValues == {Undefined} \cup {Str(s) : s \in Salts}
CommitmentValues(bd, s) ==
    {Undefined, Str(""), Num(42), Str("forged"),
     Str(Hash(ToISODateString(bd) \o ToStr(s)))}
AgeProofValues == {Undefined, Bool(TRUE), Bool(FALSE), Str("true"), Num(1)}
TimestampValues(nowMs) ==
    {Undefined, Str("soon"), Num(0), Num(-1)} \cup
    {Num(nowMs - o) : o \in {ONE_HOUR + 1, ONE_HOUR, ONE_HOUR - 1, 0, -1, -(ONE_HOUR + 1)}}

\* any JSON-like object handed to verifyAgeProof or createPublicProof
ForgedProofs(bd, nowMs) ==
    {Obj(c, a, t, s) : c \in CommitmentValues(bd, Str("a1")), a \in AgeProofValues,
                       t \in TimestampValues(nowMs), s \in SaltValues}

\* well-typed proofs for the recomputation against bd
TypedProofs(bd, nowMs) ==
    UNION {{Obj(c, Bool(a), Num(nowMs - o), s) :
              c \in {Str("forged"), Str(Hash(ToISODateString(bd) \o ToStr(s)))},
              a \in BOOLEAN, o \in {ONE_HOUR, 0}} : s \in SaltValues}

Delays == {0, ONE_HOUR, ONE_HOUR + 1}

(***************************************************************************)
(* LibSpec: the library functions applied to bounded inputs.               *)
(***************************************************************************)
Idle == [fn |-> "idle"]

\* generateAgeProof(bd)
CallGenerate ==
    /\ call.fn = "idle"
    /\ \E bd \in BirthDates \cup {InvalidDate}, now \in Todays, salt \in Salts :
         call' = [fn |-> "generate", bd |-> bd, now |-> now, nowMs |-> StartTime,
                  salt |-> salt, threw |-> generateAgeProofThrows(bd),
                  proof |-> IF generateAgeProofThrows(bd) THEN Obj(Undefined, Undefined, Undefined, Undefined)
                            ELSE generateAgeProof(bd, now, StartTime, salt)]
    /\ UNCHANGED pageVars

\* generateAgeProof(bd) a second time, for the same birth date
CallGenerateAgain ==
    /\ call.fn = "generate"
    /\ ~call.threw
    /\ \E salt \in Salts :
         call' = [fn |-> "generateAgain", bd |-> call.bd, now |-> call.now,
                  nowMs |-> call.nowMs, firstSalt |-> call.salt,
                  firstProof |-> call.proof, salt |-> salt, threw |-> FALSE,
                  proof |-> generateAgeProof(call.bd, call.now, call.nowMs, salt)]
    /\ UNCHANGED pageVars

\* createPublicProof(p), of the proof just generated or of any object
CallCreatePublicProof ==
    /\ \/ /\ call.fn = "generate"
          /\ ~call.threw
          /\ call' = [fn |-> "createPublicProof", proof |-> call.proof,
                      out |-> createPublicProof(call.proof)]
       \/ /\ call.fn = "idle"
          /\ \E p \in ForgedProofs(SampleBirthDate, StartTime) :
               call' = [fn |-> "createPublicProof", proof |-> p,
                        out |-> createPublicProof(p)]
    /\ UNCHANGED pageVars

\* verifyAgeProof(p, bd?), of the proof just generated (some time later, with its
\* birth date or without), of any object, or of a well-typed proof against any
\* birth date
CallVerify ==
    /\ \/ /\ call.fn = "generate"
          /\ ~call.threw
          /\ \E bd \in {NoDate, call.bd}, delay \in Delays :
               call' = [fn |-> "verify", proof |-> call.proof, bd |-> bd,
                        now |-> call.now, nowMs |-> call.nowMs + delay,
                        genBd |-> call.bd,
                        result |-> verifyAgeProof(call.proof, bd, call.now,
                                                  call.nowMs + delay)]
       \/ /\ call.fn = "idle"
          /\ \E bd \in {NoDate, InvalidDate, SampleBirthDate} :
               \E p \in ForgedProofs(SampleBirthDate, StartTime) :
                 call' = [fn |-> "verify", proof |-> p, bd |-> bd,
                          now |-> SampleToday, nowMs |-> StartTime, genBd |-> NoDate,
                          result |-> verifyAgeProof(p, bd, SampleToday, StartTime)]
       \/ /\ call.fn = "idle"
          /\ \E bd \in BirthDates, now \in Todays :
               \E p \in TypedProofs(bd, StartTime) :
                 call' = [fn |-> "verify", proof |-> p, bd |-> bd,
                          now |-> now, nowMs |-> StartTime, genBd |-> NoDate,
                          result |-> verifyAgeProof(p, bd, now, StartTime)]
    /\ UNCHANGED pageVars

\* the caller takes the result
Return ==
    /\ call.fn # "idle"
    /\ call' = Idle
    /\ UNCHANGED pageVars

NoMessage == [kind |-> "none"]
NoAttempt == [outcome |-> "none"]
NoExchange == [kind |-> "none"]
\* no SequenceDiagram on the page
NoDiagram ==
    /\ mounted = FALSE
    /\ animatedSteps = <<>>
    /\ shouldAnimate = TRUE
    /\ effectDue = FALSE
    /\ timer = "none"
    /\ currentIndex = 0
    /\ clicks = 0
    /\ mounts = 0

NoServed == [first |-> NoExchange, times |-> 0, between |-> FALSE, last |-> NoExchange]

LibInit ==
    /\ call = Idle
    /\ tz = 0
    /\ today = SampleToday
    /\ time = StartTime
    /\ skew = 0
    /\ ticks = 0
    /\ birthDate = ""
    /\ isGenerating = FALSE
    /\ genError = ""
    /\ state = "generator"
    /\ publicProof = Null
    /\ verificationResult = Null
    /\ error = ""
    /\ request = NoMessage
    /\ response = NoMessage
    /\ attempt = NoAttempt
    /\ served = NoServed
    /\ NoDiagram

LibNext ==
    \/ CallGenerate
    \/ CallGenerateAgain
    \/ CallCreatePublicProof
    \/ CallVerify
    \/ Return

LibSpec == LibInit /\ [][LibNext]_vars

(***************************************************************************)
(* Spec: the page (src/unnamed/part_000, src/unnamed/part_001), the        *)
(* network and the POST handler of /api/verify-proof.                      *)
(***************************************************************************)
\* what the birth-date field can hold: '', a YYYY-MM-DD string (one day of each
\* birth year), or other text
InputDates == {<<y, 1, MaxDay>> : y \in BirthYears}
ISOString(d) == ToString(d[1]) \o "-" \o Pad2(d[2]) \o "-" \o Pad2(d[3])
InputStrings == {""} \cup {ISOString(d) : d \in InputDates} \cup {"not a date"}

\* new Date(s) in the browser: a YYYY-MM-DD string is midnight UTC of that day,
\* which west of Greenwich is still the evening before
ParseDate(s, zone) ==
    IF \E d \in InputDates : ISOString(d) = s
    THEN LET d == CHOOSE d \in InputDates : ISOString(d) = s
         IN MkDate(d, IF zone < 0 THEN PrevDay(d) ELSE d)
    ELSE InvalidDate

\* date > new Date(), for a date at midnight UTC
IsAfterNow(date, now) == DateBefore(now.utc, date.utc)

\* JSON.stringify followed by request.json(): undefined properties are dropped,
\* NaN becomes null
JSONRoundTrip(obj) ==
    [k \in {k \in DOMAIN obj : obj[k].ty # "undefined"} |->
        IF obj[k].ty = "nan" THEN Null ELSE obj[k]]

\* a variant of PublicProofOf that hands the internal proof to the parent
PublicProofOfInternal(internalProof) == internalProof

\* handleGenerateProof: the first argument of onProofGenerated
PublicProofOf(internalProof) == createPublicProof(internalProof)

Skews == {0, ONE_HOUR - 1, ONE_HOUR + 1}
TickSteps == {1, ONE_HOUR}

Init ==
    /\ call = Idle
    /\ tz \in {-1, 0, 1}
    /\ today \in {t \in Todays :
                    \/ t.loc = t.utc
                    \/ tz < 0 /\ t.loc = PrevDay(t.utc)
                    \/ tz > 0 /\ t.loc = NextDay(t.utc)}
    /\ time = StartTime
    /\ skew \in Skews
    /\ ticks = 0
    /\ birthDate = ""
    /\ isGenerating = FALSE
    /\ genError = ""
    /\ state = "generator"
    /\ publicProof = Null
    /\ verificationResult = Null
    /\ error = ""
    /\ request = NoMessage
    /\ response = NoMessage
    /\ attempt = NoAttempt
    /\ served = NoServed
    /\ NoDiagram

\* the onChange handler of the birth-date field
SetBirthDate ==
    /\ state = "generator"
    /\ ~isGenerating
    /\ \E v \in InputStrings : birthDate' = v
    /\ genError' = ""
    /\ attempt' = NoAttempt
    /\ UNCHANGED <<call, diagramVars, served, tz, today, time, skew, ticks, isGenerating, state,
                   publicProof, verificationResult, error, request, response>>

\* a variant of IsUnder18Proof that lets every generated proof through
IsUnder18ProofNever(internalProof) == FALSE

\* handleGenerateProof: if (!internalProof.ageProof)
IsUnder18Proof(internalProof) == ~Truthy(internalProof.ageProof)

\* handleGenerateProof ends with an error message and sends nothing
Rejected(message, newBirthDate, outcome, date) ==
    /\ genError' = message
    /\ birthDate' = newBirthDate
    /\ attempt' = [outcome |-> outcome, date |-> date]
    /\ UNCHANGED <<state, publicProof, error, request>>

\* handleGenerateProof, run by a click on the enabled button, together with the
\* part of handleProofGenerated that runs before its await
handleGenerateProof ==
    /\ state = "generator"
    /\ ~isGenerating
    /\ birthDate # ""
    /\ LET date == ParseDate(birthDate, tz) IN
         IF birthDate = "" THEN
            Rejected("Please select a birth date", birthDate, "empty", date)
         ELSE IF date.kind = "invalid" THEN
            Rejected("Invalid date", birthDate, "invalid", date)
         ELSE IF IsAfterNow(date, today) THEN
            Rejected("Birth date must be in the past", birthDate, "future", date)
         ELSE IF generateAgeProofThrows(date) THEN
            Rejected("Invalid time value", birthDate, "threw", date)
         ELSE \E salt \in Salts :
            LET internalProof == generateAgeProof(date, today, time, salt) IN
              IF IsUnder18Proof(internalProof) THEN
                 Rejected("You must be 18 or older to continue", "", "under18", date)
              ELSE
                 /\ publicProof' = PublicProofOf(internalProof)
                 /\ error' = ""
                 /\ state' = "submitting"
                 /\ request' = [kind |-> "post",
                                body |-> JSONRoundTrip(PublicProofOf(internalProof))]
                 /\ birthDate' = ""
                 /\ genError' = ""
                 /\ attempt' = [outcome |-> "sent", date |-> date,
                                internalProof |-> internalProof]
    /\ isGenerating' = FALSE
    /\ UNCHANGED <<call, diagramVars, served, tz, today, time, skew, ticks, verificationResult, response>>

\* time passes while the request or the response is under way
Tick ==
    /\ request # NoMessage \/ response # NoMessage
    /\ ticks < MaxTicks
    /\ \E step \in TickSteps : time' = time + step
    /\ ticks' = ticks + 1
    /\ UNCHANGED <<call, diagramVars, served, tz, today, skew, birthDate, isGenerating, genError, state,
                   publicProof, verificationResult, error, request, response, attempt>>

\* POST: the test on the request body
BodyInvalid(body) ==
    \/ ~Truthy(Get(body, "commitment"))
    \/ TypeOf(Get(body, "ageProof")) # "boolean"
    \/ ~Truthy(Get(body, "timestamp"))

\* POST: await request.json() rejects for text that is not JSON (Undefined
\* here), and reading body.commitment throws for the JSON value null
PostThrows(body) == body = Undefined \/ body = Null

\* a variant of ServerVerify that refuses a request body it has answered before
ServerVerifyOnce(body, nowMs) ==
    IF served.times > 0 /\ served.first.body = body
    THEN Result(FALSE, "Proof already used")
    ELSE verifyAgeProof(
             [commitment |-> Get(body, "commitment"),
              ageProof |-> Get(body, "ageProof"),
              timestamp |-> Get(body, "timestamp"),
              salt |-> Str("")],
             NoDate, NoDate, nowMs)

\* POST: the call of verifyAgeProof, without a birth date and with salt ''
ServerVerify(body, nowMs) ==
    verifyAgeProof(
        [commitment |-> Get(body, "commitment"),
         ageProof |-> Get(body, "ageProof"),
         timestamp |-> Get(body, "timestamp"),
         salt |-> Str("")],
        NoDate, NoDate, nowMs)

\* a variant of StatusOf that answers a rejected proof with 403
StatusOfForbidding(result) == IF result.isValid THEN 200 ELSE 403

\* POST: Response.json(...) without a status option answers 200
StatusOf(result) == 200

\* POST: whether the handler gets as far as calling verifyAgeProof
PostInvokesVerifier(body) == ~PostThrows(body) /\ ~BodyInvalid(body)

\* POST: the response to a request body, at server time nowMs
PostResponse(body, nowMs) ==
    IF PostThrows(body)
    THEN [kind |-> "http", status |-> 500,
          body |-> [error |-> Str("Failed to verify proof")]]
    ELSE IF BodyInvalid(body)
    THEN [kind |-> "http", status |-> 400,
          body |-> [error |-> Str("Invalid proof structure")]]
    ELSE LET result == ServerVerify(body, nowMs)
         IN IF result.threw
            THEN [kind |-> "http", status |-> 500,
                  body |-> [error |-> Str("Failed to verify proof")]]
            ELSE [kind |-> "http", status |-> StatusOf(result),
                  body |-> [isValid |-> Bool(result.isValid),
                            message |-> Str(result.message),
                            timestamp |-> Str("locale " \o ToString(nowMs))]]

\* the POST handler of /api/verify-proof takes the request and answers it
POST ==
    /\ request # NoMessage
    /\ response' = PostResponse(request.body, time + skew)
    /\ request' = NoMessage
    /\ UNCHANGED <<call, diagramVars, served, tz, today, time, skew, ticks, birthDate, isGenerating,
                   genError, state, publicProof, verificationResult, error, attempt>>

\* a variant of Ok that takes no response for a success
OkNever(resp) == FALSE

\* response.ok
Ok(resp) == resp.status >= 200 /\ resp.status <= 299

\* a variant of ResultOf that loses the response body
ResultOfNothing(resp) == Null

\* await response.json()
ResultOf(resp) == resp.body

\* the platform answers in place of the handler (the server is down or restarting)
ServerUnavailable ==
    /\ state = "submitting"
    /\ request # NoMessage
    /\ response' = [kind |-> "http", status |-> 503,
                    body |-> [error |-> Str("Service Unavailable")]]
    /\ request' = NoMessage
    /\ UNCHANGED <<call, diagramVars, served, tz, today, time, skew, ticks, birthDate, isGenerating,
                   genError, state, publicProof, verificationResult, error, attempt>>

\* handleProofGenerated after its await: the response arrives
ReceiveResponse ==
    /\ state = "submitting"
    /\ response # NoMessage
    /\ IF ~Ok(response)
       THEN /\ error' = "Failed to verify proof"
            /\ state' = "generator"
            /\ UNCHANGED verificationResult
       ELSE /\ verificationResult' = ResultOf(response)
            /\ state' = "verified"
            /\ UNCHANGED error
    /\ response' = NoMessage
    /\ UNCHANGED <<call, diagramVars, served, tz, today, time, skew, ticks, birthDate, isGenerating,
                   genError, publicProof, request, attempt>>

\* handleProofGenerated after its await: fetch rejects (the network fails)
FetchFails ==
    /\ state = "submitting"
    /\ request # NoMessage \/ response # NoMessage
    /\ error' = "Failed to fetch"
    /\ state' = "generator"
    /\ request' = NoMessage
    /\ response' = NoMessage
    /\ UNCHANGED <<call, diagramVars, served, tz, today, time, skew, ticks, birthDate, isGenerating,
                   genError, publicProof, verificationResult, attempt>>

\* handleReset, the onReset of the result view
handleReset ==
    /\ state = "verified"
    /\ state' = "generator"
    /\ publicProof' = Null
    /\ verificationResult' = Null
    /\ error' = ""
    /\ attempt' = NoAttempt
    /\ UNCHANGED <<call, diagramVars, served, tz, today, time, skew, ticks, birthDate, isGenerating,
                   genError, request, response>>

Next ==
    \/ SetBirthDate
    \/ handleGenerateProof
    \/ Tick
    \/ POST
    \/ ServerUnavailable
    \/ ReceiveResponse
    \/ FetchFails
    \/ handleReset

Spec == Init /\ [][Next]_vars

\* a request that is under way settles: the handler answers it and the page
\* takes the answer, unless the network fails first
FairSpec == Spec /\ WF_vars(POST) /\ WF_vars(ReceiveResponse)

(***************************************************************************)
(* ApiSpec: the POST handler of /api/verify-proof (src/unnamed/part_001)   *)
(* called directly, with any JSON body, any number of times.               *)
(***************************************************************************)
\* values a caller can put in the three fields of a request body
\* a proof generated by an adult one hour before the first request reaches the server
EarlierProof ==
    createPublicProof(generateAgeProof(SampleBirthDate, SampleToday, StartTime - ONE_HOUR, "a1"))

BodyCommitments == {Str("abc"), Num(42), Undefined, EarlierProof.commitment}
BodyAgeProofs == {Bool(TRUE), Bool(FALSE), Str("true"), Undefined}
BodyTimestamps == {Num(StartTime), Num(StartTime - ONE_HOUR), Str("soon"), Undefined}

ApiInit ==
    /\ call = Idle
    /\ tz = 0
    /\ today = SampleToday
    /\ time = StartTime
    /\ skew = 0
    /\ ticks = 0
    /\ birthDate = ""
    /\ isGenerating = FALSE
    /\ genError = ""
    /\ state = "generator"
    /\ publicProof = Null
    /\ verificationResult = Null
    /\ error = ""
    /\ request = NoMessage
    /\ response = NoMessage
    /\ attempt = NoAttempt
    /\ served = NoServed
    /\ NoDiagram

\* one more submission of body is allowed: the body answered first is submitted
\* at most MaxSubmissions times
MaySubmit(body) == (served.times > 0 /\ served.first.body = body) => served.times < MaxSubmissions

\* a caller sends a request: an object with any of the field values, the JSON
\* value null, or text that is not JSON
Submit ==
    /\ request = NoMessage
    /\ response = NoMessage
    /\ \/ \E c \in BodyCommitments, a \in BodyAgeProofs, ts \in BodyTimestamps :
            LET body == JSONRoundTrip([commitment |-> c, ageProof |-> a, timestamp |-> ts])
            IN /\ MaySubmit(body)
               /\ request' = [kind |-> "post", body |-> body]
       \/ \E body \in {Null, Undefined} :
            /\ MaySubmit(body)
            /\ request' = [kind |-> "post", body |-> body]
    /\ UNCHANGED <<call, diagramVars, served, tz, today, time, skew, ticks, birthDate, isGenerating,
                   genError, state, publicProof, verificationResult, error,
                   response, attempt>>

\* the POST handler answers the request; served records the exchange
ApiPOST ==
    /\ request # NoMessage
    /\ LET exchange == [kind |-> "answered",
                        body |-> request.body,
                        nowMs |-> time + skew,
                        invoked |-> PostInvokesVerifier(request.body),
                        response |-> PostResponse(request.body, time + skew)]
       IN /\ response' = exchange.response
          /\ served' = IF served.times = 0
                       THEN [first |-> exchange, times |-> 1, between |-> FALSE,
                             last |-> exchange]
                       ELSE IF served.first.body = request.body
                       THEN [served EXCEPT !.times = @ + 1, !.last = exchange]
                       ELSE [served EXCEPT !.between = TRUE, !.last = exchange]
    /\ request' = NoMessage
    /\ UNCHANGED <<call, diagramVars, tz, today, time, skew, ticks, birthDate, isGenerating,
                   genError, state, publicProof, verificationResult, error, attempt>>

\* the caller takes the response
TakeResponse ==
    /\ response # NoMessage
    /\ response' = NoMessage
    /\ served' = [served EXCEPT !.last = NoExchange]
    /\ UNCHANGED <<call, diagramVars, tz, today, time, skew, ticks, birthDate, isGenerating,
                   genError, state, publicProof, verificationResult, error,
                   request, attempt>>

ApiNext ==
    \/ Submit
    \/ Tick
    \/ ApiPOST
    \/ TakeResponse

ApiSpec == ApiInit /\ [][ApiNext]_vars

(***************************************************************************)
(* AnimSpec: the step animation of SequenceDiagram                         *)
(* (src/src/components/SequenceDiagram.tsx).                               *)
(***************************************************************************)
\* the ids of getSequenceSteps, in order
StepIds == <<"step-1", "step-2", "step-3", "step-4", "step-5", "step-6", "step-7">>

\* steps[currentIndex] exists (the index counts from 0)
HasStep(index) == index < Len(StepIds)

\* a variant of ShowStep that puts the new step first
ShowStepFirst(prev, index) == <<StepIds[index + 1]>> \o prev

\* the updater of setAnimatedSteps in the interval: [...prev, step.id]
ShowStep(prev, index) == Append(prev, StepIds[index + 1])

pageIdle == <<call, tz, today, time, skew, ticks, birthDate, isGenerating, genError,
              state, publicProof, verificationResult, error, request, response,
              attempt, served>>

AnimInit ==
    /\ call = Idle
    /\ tz = 0
    /\ today = SampleToday
    /\ time = StartTime
    /\ skew = 0
    /\ ticks = 0
    /\ birthDate = ""
    /\ isGenerating = FALSE
    /\ genError = ""
    /\ state = "generator"
    /\ publicProof = Null
    /\ verificationResult = Null
    /\ error = ""
    /\ request = NoMessage
    /\ response = NoMessage
    /\ attempt = NoAttempt
    /\ served = NoServed
    /\ NoDiagram

\* the diagram is rendered for the first time: fresh state, the effect is scheduled
Mount ==
    /\ ~mounted
    /\ mounts < MaxMounts
    /\ mounted' = TRUE
    /\ mounts' = mounts + 1
    /\ animatedSteps' = <<>>
    /\ shouldAnimate' = TRUE
    /\ effectDue' = TRUE
    /\ timer' = "none"
    /\ currentIndex' = 0
    /\ UNCHANGED <<clicks, pageIdle>>

\* the effect on [shouldAnimate] runs: the cleanup of its last run, then its body
RunEffect ==
    /\ mounted
    /\ effectDue
    /\ effectDue' = FALSE
    /\ IF ~shouldAnimate
       THEN /\ timer' = "none"
            /\ UNCHANGED <<animatedSteps, shouldAnimate, currentIndex>>
       ELSE IF Len(StepIds) > 0
       THEN /\ animatedSteps' = <<StepIds[1]>>
            /\ currentIndex' = 1
            /\ timer' = "set"
            /\ UNCHANGED shouldAnimate
       ELSE /\ animatedSteps' = <<>>
            /\ shouldAnimate' = FALSE
            /\ timer' = "none"
            /\ UNCHANGED currentIndex
    /\ UNCHANGED <<mounted, clicks, mounts, pageIdle>>

\* the callback of setInterval, every 400 ms while the interval is set
IntervalTick ==
    /\ mounted
    /\ timer = "set"
    /\ IF HasStep(currentIndex)
       THEN /\ animatedSteps' = ShowStep(animatedSteps, currentIndex)
            /\ currentIndex' = currentIndex + 1
            /\ UNCHANGED <<timer, shouldAnimate, effectDue>>
       ELSE /\ timer' = "none"
            /\ shouldAnimate' = FALSE
            /\ effectDue' = (effectDue \/ shouldAnimate)
            /\ UNCHANGED <<animatedSteps, currentIndex>>
    /\ UNCHANGED <<mounted, clicks, mounts, pageIdle>>

\* resetAnimation, the onClick of the replay button: setShouldAnimate(true); a
\* state that does not change schedules nothing
resetAnimation ==
    /\ mounted
    /\ clicks < MaxClicks
    /\ clicks' = clicks + 1
    /\ shouldAnimate' = TRUE
    /\ effectDue' = (effectDue \/ ~shouldAnimate)
    /\ UNCHANGED <<mounted, animatedSteps, timer, currentIndex, mounts, pageIdle>>

\* the diagram leaves the page: the effect's cleanup clears the interval and the
\* component's state is gone
Unmount ==
    /\ mounted
    /\ mounted' = FALSE
    /\ animatedSteps' = <<>>
    /\ shouldAnimate' = TRUE
    /\ effectDue' = FALSE
    /\ timer' = "none"
    /\ currentIndex' = 0
    /\ UNCHANGED <<clicks, mounts, pageIdle>>

AnimNext ==
    \/ Mount
    \/ RunEffect
    \/ IntervalTick
    \/ resetAnimation
    \/ Unmount

\* React runs a scheduled effect, and a set interval keeps firing
AnimSpec == AnimInit /\ [][AnimNext]_vars /\ WF_vars(RunEffect) /\ WF_vars(IntervalTick)

(***************************************************************************)
(* What the specification calls a well-formed proof, and calendar age.     *)
(***************************************************************************)
\* commitment a non-empty string, ageProof a boolean, timestamp a positive integer
WellFormed(proof) ==
    /\ Get(proof, "commitment").ty = "string"
    /\ Get(proof, "commitment").s # ""
    /\ Get(proof, "ageProof").ty = "boolean"
    /\ Get(proof, "timestamp").ty = "number"
    /\ Get(proof, "timestamp").n > 0

\* the timestamp is a number more than one hour before nowMs
OlderThanOneHour(proof, nowMs) ==
    /\ Get(proof, "timestamp").ty = "number"
    /\ nowMs - Get(proof, "timestamp").n > ONE_HOUR

\* whole years from calendar date d to calendar date now
CalendarAge(d, now) ==
    (now[1] - d[1]) - (IF DateBefore(<<0, now[2], now[3]>>, <<0, d[2], d[3]>>) THEN 1 ELSE 0)

(***************************************************************************)
(* Claims about the library functions (LibSpec).                           *)
(***************************************************************************)
\* C1: for a birth date not after now, generateAgeProof sets ageProof exactly
\* when the calendar age in whole years is at least 18.
C1_AgeProofIsCalendarAge ==
    (/\ call.fn = "generate"
     /\ ~call.threw
     /\ ~DateBefore(call.now.utc, call.bd.utc)
     /\ ~DateBefore(call.now.loc, call.bd.loc))
    => call.proof.ageProof = Bool(CalendarAge(call.bd.loc, call.now.loc) >= AdultAge)

\* C3: without a birth date, a well-formed unexpired proof is valid exactly when
\* its ageProof flag is true, with the matching message, whatever the commitment.
C3_ClaimOnly ==
    (/\ call.fn = "verify"
     /\ call.bd = NoDate
     /\ WellFormed(call.proof)
     /\ ~OlderThanOneHour(call.proof, call.nowMs))
    => /\ ~call.result.threw
       /\ call.result.isValid = call.proof.ageProof.b
       /\ call.result.message = IF call.proof.ageProof.b
                                THEN "Proof accepted: User claims to be over 18"
                                ELSE "Proof rejected: User is not over 18"

C3_Witness ==
    /\ call.fn = "verify"
    /\ call.bd = NoDate
    /\ WellFormed(call.proof)
    /\ ~OlderThanOneHour(call.proof, call.nowMs)
    /\ call.proof.commitment = Str("forged")
    /\ call.proof.ageProof = Bool(TRUE)
    /\ call.result.isValid
    /\ call.result.message = "Proof accepted: User claims to be over 18"

\* C4: a well-formed proof is rejected with 'Proof has expired' exactly when
\* now - timestamp is more than 3,600,000 ms; at exactly 3,600,000 ms it is not.
C4_Expiry ==
    (call.fn = "verify" /\ WellFormed(call.proof))
    => /\ (call.result.message = "Proof has expired")
            <=> (call.nowMs - call.proof.timestamp.n > 3600000)
       /\ (call.result.message = "Proof has expired") => ~call.result.isValid

C4_Witness ==
    /\ call.fn = "verify"
    /\ WellFormed(call.proof)
    /\ call.nowMs - call.proof.timestamp.n = 3600000
    /\ call.result.message # "Proof has expired"
    /\ call.result.isValid

\* C5: verifyAgeProof answers 'Invalid proof structure' for every proof in which
\* commitment is not a non-empty string, ageProof not a boolean or timestamp not
\* a positive integer.
C5_StructuralCheck ==
    (call.fn = "verify" /\ ~WellFormed(call.proof))
    => (~call.result.isValid /\ call.result.message = "Invalid proof structure")

\* C6: the checks run in order and the first failing one decides: a proof that is
\* not well-formed and also expired yields 'Invalid proof structure'; a well-formed
\* expired one yields 'Proof has expired' whatever its flag and birth date.
C6_StepOrder ==
    (call.fn = "verify" /\ OlderThanOneHour(call.proof, call.nowMs))
    => call.result.message = IF WellFormed(call.proof) THEN "Proof has expired"
                             ELSE "Invalid proof structure"

\* C7: createPublicProof(p) has exactly the keys commitment, ageProof and
\* timestamp, each with p's value, and no salt.
C7_Projection ==
    call.fn = "createPublicProof"
    => /\ DOMAIN call.out = {"commitment", "ageProof", "timestamp"}
       /\ \A k \in DOMAIN call.out : call.out[k] = Get(call.proof, k)

C7_Witness ==
    /\ call.fn = "createPublicProof"
    /\ "salt" \in DOMAIN call.proof
    /\ WellFormed(call.proof)

\* C9: with a birth date, a well-formed unexpired proof is valid exactly when its
\* commitment is Hash(canonical(birthDate) + salt), the eligibility recomputed
\* from birthDate and now equals the claimed flag, and the flag is true.
C9_Recomputation ==
    (/\ call.fn = "verify"
     /\ call.bd.kind = "date"
     /\ WellFormed(call.proof)
     /\ ~OlderThanOneHour(call.proof, call.nowMs))
    => (call.result.isValid
          <=> /\ call.proof.commitment.s
                   = Hash(ToISODateString(call.bd) \o ToStr(Get(call.proof, "salt")))
              /\ call.proof.ageProof.b
                   = (CalendarAge(call.bd.loc, call.now.loc) >= AdultAge)
              /\ call.proof.ageProof.b)

C9_Witness ==
    /\ call.fn = "verify"
    /\ call.bd.kind = "date"
    /\ WellFormed(call.proof)
    /\ ~OlderThanOneHour(call.proof, call.nowMs)
    /\ call.result.isValid
    /\ call.result.message = "Proof verified: User is over 18"

\* C10: verifying a generated proof against the birth date it was generated from
\* recomputes the proof's own commitment.
C10_RoundTrip ==
    (/\ call.fn = "verify"
     /\ call.genBd.kind = "date"
     /\ call.bd = call.genBd
     /\ call.result.hasDetails)
    => /\ call.result.proofDetails.commitment
            = Str(call.result.proofDetails.expectedCommitment)
       /\ call.proof.commitment = Str(call.result.proofDetails.expectedCommitment)

C10_Witness ==
    /\ call.fn = "verify"
    /\ call.genBd.kind = "date"
    /\ call.bd = call.genBd
    /\ call.bd.loc # call.bd.utc
    /\ call.result.hasDetails

\* C11: on the 18th birthday itself (year difference 18, same month, same day)
\* generateAgeProof sets ageProof; one day before it (same month, birth day =
\* today's day + 1) it does not.
C11_AgeBoundary ==
    (/\ call.fn = "generate"
     /\ ~call.threw
     /\ call.now.loc[1] - call.bd.loc[1] = 18
     /\ call.now.loc[2] = call.bd.loc[2])
    => /\ call.bd.loc[3] = call.now.loc[3] => call.proof.ageProof = Bool(TRUE)
       /\ call.bd.loc[3] = call.now.loc[3] + 1 => call.proof.ageProof = Bool(FALSE)

C11_Witness ==
    /\ call.fn = "generate"
    /\ ~call.threw
    /\ call.now.loc[1] - call.bd.loc[1] = 18
    /\ call.now.loc[2] = call.bd.loc[2]
    /\ call.bd.loc[3] = call.now.loc[3]
    /\ call.proof.ageProof = Bool(TRUE)

C13_FutureTimestampRejected ==
    (/\ call.fn = "verify"
     /\ WellFormed(call.proof)
     /\ call.proof.timestamp.n - call.nowMs > ONE_HOUR)
    => ~call.result.isValid

\* C17: two calls of generateAgeProof for the same birth date that draw different
\* salts return different commitments.
C17_Unlinkability ==
    (call.fn = "generateAgain" /\ call.firstSalt # call.salt)
    => call.firstProof.commitment # call.proof.commitment

C17_Witness ==
    /\ call.fn = "generateAgain"
    /\ call.firstSalt # call.salt
    /\ call.firstProof.timestamp = call.proof.timestamp
    /\ call.firstProof.ageProof = call.proof.ageProof

\* C19: whenever verification yields isValid = false, with or without a birth
\* date, the message names the check that failed (structure, expiry or
\* eligibility), and that check did fail for the proof.
C19_SpecificTruthfulReason ==
    (call.fn = "verify" /\ ~call.result.threw /\ ~call.result.isValid)
    => \/ /\ call.result.message = "Invalid proof structure"
          /\ ~WellFormed(call.proof)
       \/ /\ call.result.message = "Proof has expired"
          /\ OlderThanOneHour(call.proof, call.nowMs)
       \/ /\ call.result.message = "Proof rejected: User is not over 18"
          /\ Get(call.proof, "ageProof") # Bool(TRUE)

\* C20: the over-18 flag of generateAgeProof for a birth date and today equals
\* the one verifyAgeProof recomputes for the same birth date and today, so a
\* generated proof passes the ageValid comparison.
C20_ProverVerifierAgree ==
    (/\ call.fn = "verify"
     /\ call.genBd.kind = "date"
     /\ call.bd = call.genBd
     /\ call.result.hasDetails)
    => /\ call.result.proofDetails.ageValid
       /\ GenIsOver18(call.bd, call.now) = VerIsOver18(call.bd, call.now)

\* C22: in generateAgeProof the calendar date written into the committed string
\* (from toISOString) is the calendar date whose year, month and day the age
\* computation reads (from getFullYear, getMonth, getDate).
C22_CommittedDateIsAgeDate ==
    (call.fn = "generate" /\ ~call.threw)
    => call.proof.commitment =
          Str(Hash(ISOString(<<getFullYear(call.bd), getMonth(call.bd) + 1, getDate(call.bd)>>)
                   \o call.salt))

(***************************************************************************)
(* Claims about the page and the POST handler (Spec).                      *)
(***************************************************************************)
\* C2: with clocks less than one hour apart, a run of the client flow for a birth
\* date 18 or more years before today that has come to an end (other than by a
\* network failure) has ended in 'verified' with isValid = true.
C2_EndToEndCompleteness ==
    (/\ attempt.outcome # "none"
     /\ attempt.date.kind = "date"
     /\ CalendarAge(attempt.date.utc, today.loc) >= AdultAge
     /\ skew < ONE_HOUR /\ -skew < ONE_HOUR
     /\ error # "Failed to fetch")
    => \/ state = "submitting"
       \/ state = "verified" /\ Get(verificationResult, "isValid") = Bool(TRUE)

\* C8: a request body under way to /api/verify-proof is the createPublicProof
\* projection of the proof generateAgeProof returned for this attempt: its keys are
\* commitment, ageProof and timestamp, and no value in it is the salt or the
\* birth date.
C8_RequestIsProjection ==
    request # NoMessage
    => /\ attempt.outcome = "sent"
       /\ \E salt \in Salts :
            attempt.internalProof
              = generateAgeProof(attempt.date, today, request.body.timestamp.n, salt)
       /\ DOMAIN request.body = {"commitment", "ageProof", "timestamp"}
       /\ \A k \in DOMAIN request.body :
            /\ request.body[k] = attempt.internalProof[k]
            /\ request.body[k] # attempt.internalProof.salt
            /\ request.body[k] # Str(ToISODateString(attempt.date))

C8_Witness ==
    /\ request # NoMessage
    /\ attempt.outcome = "sent"
    /\ WellFormed(request.body)
    /\ attempt.internalProof.salt = Str("b2")


\* C16: a generated proof with ageProof = false is rejected in the page and
\* nothing is sent: no request in flight carries ageProof = false, no proof with
\* ageProof = false is handed to onProofGenerated (publicProof), and after the
\* rejection the page shows the under-18 message with no request under way.
C16_NothingSentUnder18 ==
    /\ request # NoMessage => Get(request.body, "ageProof") = Bool(TRUE)
    /\ publicProof # Null => Get(publicProof, "ageProof") = Bool(TRUE)
    /\ attempt.outcome = "sent" => attempt.internalProof.ageProof = Bool(TRUE)
    /\ attempt.outcome = "under18"
         => /\ request = NoMessage
            /\ response = NoMessage
            /\ state = "generator"
            /\ genError = "You must be 18 or older to continue"
            /\ birthDate = ""

C16_Witness ==
    /\ attempt.outcome = "under18"
    /\ ~GenIsOver18(attempt.date, today)
    /\ genError = "You must be 18 or older to continue"
    /\ request = NoMessage


\* the time that can have passed in n advances of the clock
RECURSIVE ElapsedWithin(_)
ElapsedWithin(n) ==
    IF n = 0 THEN {0}
    ELSE LET before == ElapsedWithin(n - 1)
         IN before \cup {e + step : e \in before, step \in TickSteps}

\* a 2xx status
IsSuccessStatus(status) == status \in 200..299

\* in 'verified', publicProof is the proof submitted last and verificationResult
\* is the body of an ok answer of the server to it
C23_VerifiedState ==
    state = "verified"
    => /\ publicProof # Null
       /\ verificationResult # Null
       /\ attempt.outcome = "sent"
       /\ publicProof = createPublicProof(attempt.internalProof)
       /\ \E e \in ElapsedWithin(ticks) :
            LET answer == PostResponse(JSONRoundTrip(publicProof), StartTime + skew + e)
            IN /\ IsSuccessStatus(answer.status)
               /\ verificationResult = answer.body

\* the page moves only generator -> submitting -> verified or generator, and
\* verified -> generator; it enters 'verified' on receiving an ok response
C23_Transition ==
    /\ state' # state
         => <<state, state'>> \in {<<"generator", "submitting">>,
                                    <<"submitting", "verified">>,
                                    <<"submitting", "generator">>,
                                    <<"verified", "generator">>}
    /\ (state' = "verified" /\ state # "verified")
         => /\ response # NoMessage
            /\ IsSuccessStatus(response.status)
            /\ verificationResult' = response.body
            /\ publicProof' = publicProof

\* C23: the page is in 'verified' only after an ok response to the proof
\* submitted last; there publicProof and verificationResult are non-null, the
\* result being the response to that proof; the only transitions are generator to
\* submitting, submitting to verified, submitting to generator and verified to
\* generator.
C23_PageStateMachine == []C23_VerifiedState /\ [][C23_Transition]_vars

C23_Witness ==
    /\ state = "verified"
    /\ attempt.outcome = "sent"
    /\ publicProof = createPublicProof(attempt.internalProof)
    /\ verificationResult # Null
    /\ verificationResult.isValid = Bool(TRUE)

\* while 'submitting' exactly one message is under way, otherwise none
C24_OneMessage ==
    /\ state = "submitting" => ((request # NoMessage) # (response # NoMessage))
    /\ state # "submitting" => (request = NoMessage /\ response = NoMessage)

\* a request is created only by the step that generates a proof, and the page
\* leaves 'submitting' to 'verified' on an ok response, or to 'generator' with
\* an error message on a response that is not ok or on a network failure
C24_Step ==
    /\ (request' # NoMessage /\ request' # request)
         => /\ state = "generator"
            /\ state' = "submitting"
            /\ request = NoMessage
            /\ request'.body = JSONRoundTrip(publicProof')
    /\ (state = "submitting" /\ response # NoMessage /\ response' = NoMessage
        /\ error' # "Failed to fetch")
         => IF IsSuccessStatus(response.status)
            THEN state' = "verified" /\ error' = error
            ELSE state' = "generator" /\ error' = "Failed to verify proof"
    /\ (state = "submitting" /\ state' = "generator")
         => /\ error' # ""
            /\ request' = NoMessage
            /\ response' = NoMessage

\* C24: each generated proof causes exactly one request, with no retry, and when
\* the request settles the page leaves 'submitting': to 'verified' on an ok
\* response, to 'generator' with a non-empty error message on a response that is
\* not ok or on a network failure.
C24_OneRequestThenSettles ==
    /\ []C24_OneMessage
    /\ [][C24_Step]_vars
    /\ (state = "submitting" ~> state # "submitting")

C24_Witness ==
    /\ state = "generator"
    /\ attempt.outcome = "sent"
    /\ error = "Failed to verify proof"
    /\ request = NoMessage
    /\ response = NoMessage

(***************************************************************************)
(* Claims about the POST handler called directly (ApiSpec).                *)
(***************************************************************************)
\* the request body is an object whose three fields are present with the types
\* of ProofRequest
HasTypedFields(body) ==
    /\ Get(body, "commitment").ty = "string"
    /\ Get(body, "ageProof").ty = "boolean"
    /\ Get(body, "timestamp").ty = "number"

\* C14: for every request body (a JSON object) in which commitment, ageProof or
\* timestamp is missing or of the wrong type, the POST handler answers 400 with
\* 'Invalid proof structure' and does not call verifyAgeProof.
C14_TransportStructuralRejection ==
    (/\ served.last # NoExchange
     /\ ~PostThrows(served.last.body)
     /\ ~HasTypedFields(served.last.body))
    => /\ served.last.response.status = 400
       /\ served.last.response.body = [error |-> Str("Invalid proof structure")]
       /\ ~served.last.invoked

\* C15: for every well-formed request body that the verifier rejects (expired, or
\* ageProof = false) the POST handler answers with status 200 and a body holding
\* isValid = false, the verifier's message and a timestamp string.
C15_RejectionIsSuccessAtTransport ==
    (/\ served.last # NoExchange
     /\ WellFormed(served.last.body)
     /\ \/ OlderThanOneHour(served.last.body, served.last.nowMs)
        \/ Get(served.last.body, "ageProof") = Bool(FALSE))
    => /\ served.last.invoked
       /\ served.last.response.status = 200
       /\ DOMAIN served.last.response.body = {"isValid", "message", "timestamp"}
       /\ served.last.response.body.isValid = Bool(FALSE)
       /\ served.last.response.body.message =
             Str(IF OlderThanOneHour(served.last.body, served.last.nowMs)
                 THEN "Proof has expired"
                 ELSE "Proof rejected: User is not over 18")
       /\ served.last.response.body.timestamp.ty = "string"

C15_Witness ==
    /\ served.last # NoExchange
    /\ WellFormed(served.last.body)
    /\ Get(served.last.body, "ageProof") = Bool(TRUE)
    /\ OlderThanOneHour(served.last.body, served.last.nowMs)
    /\ served.last.response.status = 200
    /\ served.last.response.body.isValid = Bool(FALSE)
    /\ served.last.response.body.message = Str("Proof has expired")

\* C18: the verifier keeps no state: whatever was answered before, the answer to
\* a request body is the one its fields and the server time give; the same body
\* submitted again at the same server time gets the same answer, and a
\* well-formed unexpired body with ageProof = true is accepted every time.
C18_NoStateBetweenCalls ==
    (/\ served.last # NoExchange
     /\ served.last.body = served.first.body)
    => /\ served.last.response = PostResponse(served.last.body, served.last.nowMs)
       /\ served.last.nowMs = served.first.nowMs
            => served.last.response = served.first.response
       /\ (/\ WellFormed(served.last.body)
           /\ Get(served.last.body, "ageProof") = Bool(TRUE)
           /\ ~OlderThanOneHour(served.last.body, served.last.nowMs))
            => /\ served.last.response.status = 200
               /\ served.last.response.body.isValid = Bool(TRUE)

C18_Witness ==
    /\ served.last # NoExchange
    /\ served.last.body = served.first.body
    /\ served.times = MaxSubmissions
    /\ served.between
    /\ WellFormed(served.last.body)
    /\ Get(served.last.body, "ageProof") = Bool(TRUE)
    /\ served.first.response.body.isValid = Bool(TRUE)
    /\ served.last.response.body.isValid = Bool(TRUE)


\* C21: once more than one hour has passed since a proof was generated, no request
\* that reuses its commitment and ageProof is accepted by the server, whatever
\* the sender has put in the timestamp field.
C21_ReplayPrevention ==
    (/\ served.last # NoExchange
     /\ ~PostThrows(served.last.body)
     /\ Get(served.last.body, "commitment") = EarlierProof.commitment
     /\ Get(served.last.body, "ageProof") = EarlierProof.ageProof
     /\ served.last.nowMs - EarlierProof.timestamp.n > ONE_HOUR)
    => ~(/\ served.last.response.status = 200
         /\ served.last.response.body.isValid = Bool(TRUE))


(***************************************************************************)
(* Claims about the step animation (AnimSpec).                             *)
(***************************************************************************)
\* all seven steps are shown, the interval is cleared and shouldAnimate is false
AnimationDone ==
    /\ animatedSteps = StepIds
    /\ timer = "none"
    /\ ~shouldAnimate

\* animatedSteps is a prefix of the step ids in order, without duplicates
C25_Prefix ==
    mounted
    => /\ Len(animatedSteps) <= Len(StepIds)
       /\ \A i \in 1..Len(animatedSteps) : animatedSteps[i] = StepIds[i]
       /\ \A i, j \in 1..Len(animatedSteps) : i # j => animatedSteps[i] # animatedSteps[j]

\* a run of the animation starts at the first step and shows one more step at a
\* time; the replay button restarts a finished animation and does nothing to a
\* running one
C25_Step ==
    /\ (mounted /\ mounted' /\ effectDue /\ ~effectDue' /\ shouldAnimate)
         => (animatedSteps' = <<StepIds[1]>> /\ timer' = "set")
    /\ (mounted /\ mounted' /\ animatedSteps' # animatedSteps)
         => \/ animatedSteps' = <<StepIds[1]>>
            \/ /\ timer = "set"
               /\ Len(animatedSteps') = Len(animatedSteps) + 1
    /\ (clicks' # clicks /\ AnimationDone)
         => (shouldAnimate' /\ effectDue' /\ animatedSteps' = animatedSteps)
    /\ (clicks' # clicks /\ shouldAnimate)
         => UNCHANGED <<animatedSteps, shouldAnimate, effectDue, timer, currentIndex>>

\* C25: while the diagram is mounted, animatedSteps is a duplicate-free prefix of
\* the seven step ids in order (the first shown at once, one more per tick);
\* eventually all seven are shown, the interval is cleared and shouldAnimate is
\* false; replay after that restarts from the first step, and replay while the
\* animation runs changes nothing.
C25_SequenceAnimation ==
    /\ []C25_Prefix
    /\ [][C25_Step]_vars
    /\ ((mounted /\ shouldAnimate) ~> (~mounted \/ AnimationDone))
    /\ ((mounted /\ shouldAnimate /\ effectDue) ~> (~mounted \/ animatedSteps = <<StepIds[1]>>))

C25_Witness ==
    /\ mounted
    /\ clicks > 0
    /\ shouldAnimate
    /\ effectDue
    /\ animatedSteps = StepIds
    /\ timer = "none"

====
